---- MODULE Spec2Model ----
(***************************************************************************)
(* Order / payment lifecycle of the helmet store backend.                  *)
(*                                                                         *)
(* Every request handler is an async function: between two awaited         *)
(* database (or gateway) calls other requests may run.  A handler is       *)
(* therefore modelled as a chain of steps, one per awaited call, executed  *)
(* by a request slot; a prisma.$transaction block is a single step.        *)
(* Money is counted in paise (1/100 rupee), time in units of five minutes. *)
(***************************************************************************)
EXTENDS Integers, Sequences, FiniteSets, TLC

\* ------------------------------------------------------------------ bounds
MaxOrders == 2          \* order rows that may be created
MaxTime == 3            \* last clock value
MaxAddQty == 1          \* largest quantity in one cart request
MaxCartQty == 1         \* largest quantity a cart line may reach
MaxStock == 3           \* largest stock counter explored
MaxDebt == 1            \* stock counters are explored down to -MaxDebt

\* --------------------------------------------------------- program constants
TenMinutes == 2             \* 10 * 60 * 1000 ms, in five-minute units
FreeShippingThreshold == 99900
FlatShipping == 9900
GstPercent == 18
AmountEpsilon == 1          \* 0.01 rupee

\* ------------------------------------------------------------ the catalogue
Users == {"u1", "u2"}
Shoppers == {"u1"}      \* the users that fill a cart
Products == {"p1"}
Variants == {"v1"}
NoVariant == "none"
NoCoupon == ""
Slots == {1, 2}

ItemKeys == {[productId |-> "p1", variantId |-> NoVariant],
             [productId |-> "p1", variantId |-> "v1"]}

\* Product rows: price, discountPrice (0 = null); variant rows: additionalPrice
Product(p) == [price |-> 60000, discountPrice |-> 50000, isActive |-> TRUE]
Variant(v) == [productId |-> "p1", additionalPrice |-> 49900]

Addresses == {"a1", "a2"}
AddressOwner(a) == IF a = "a1" THEN "u1" ELSE "u2"

PaymentIds == {"pay_A", "pay_B"}
RzpIds == 1 .. MaxOrders

\* ---------------------------------------------------------------- helpers
RECURSIVE SumOver(_, _)
SumOver(S, f) ==
  IF S = {} THEN 0
  ELSE LET x == CHOOSE y \in S : TRUE IN f[x] + SumOver(S \ {x}, f)

Abs(x) == IF x < 0 THEN 0 - x ELSE x

EmptyItems == [k \in ItemKeys |-> 0]

\* Math.round(x / d) for a non-negative integer numerator x: half rounds up
RoundDiv(x, d) == (2 * x + d) \div (2 * d)


\* ------------------------------------------------------------------ coupons
\* Coupon rows (static columns); usedCount is the variable usedCount[code]
CouponCodes == {"WELCOME10"}
CouponInputs == {NoCoupon, "WELCOME10"}
UsageLimit == 2
CouponValidUntil == 2

Coupon(code) ==
  [isActive |-> TRUE, usageLimit |-> UsageLimit, validFrom |-> 0,
   validUntil |-> CouponValidUntil, minPurchase |-> 100000,
   discountType |-> "PERCENTAGE", discountValue |-> 10, maxDiscount |-> 50000]

\* ------------------------------------------------------------------- pricing
\* unit price of a cart line (part_004:871-873)
UnitPrice(k) ==
  LET p == Product(k.productId)
      base == IF p.discountPrice # 0 THEN p.discountPrice ELSE p.price
  IN IF k.variantId # NoVariant
       THEN base + Variant(k.variantId).additionalPrice
       ELSE base

LinePrices(items) == [k \in ItemKeys |-> UnitPrice(k) * items[k]]

Subtotal(items) == SumOver(ItemKeys, LinePrices(items))

ShippingCharge(subtotal) ==
  IF subtotal >= FreeShippingThreshold THEN 0 ELSE FlatShipping

TaxTruncated(subtotal) == ((subtotal * GstPercent) \div 10000) * 100

\* Math.round(subtotal * 0.18), subtotal in paise, result in whole rupees
Tax(subtotal) == RoundDiv(subtotal * GstPercent, 10000) * 100

Total(subtotal, discount, shippingCharge, tax) ==
  subtotal - discount + shippingCharge + tax

\* discount of a coupon row on a subtotal (part_004:902-909)
CouponDiscount(c, subtotal) ==
  IF c.discountType = "PERCENTAGE"
    THEN LET d == (subtotal * c.discountValue) \div 100
         IN IF c.maxDiscount # 0 /\ c.maxDiscount < d THEN c.maxDiscount ELSE d
    ELSE c.discountValue

\* ------------------------------------------------------------ stock ledger
QtyOfProduct(items, p) ==
  SumOver({k \in ItemKeys : k.productId = p}, items)

QtyOfVariant(items, v) ==
  SumOver({k \in ItemKeys : k.variantId = v}, items)

DecrementStock(st, items) == [p \in Products |-> st[p] - QtyOfProduct(items, p)]

DecrementVariantStockSkipped(vst, items) == vst

DecrementVariantStock(vst, items) ==
  [v \in Variants |-> vst[v] - QtyOfVariant(items, v)]

IncrementStock(st, items) == [p \in Products |-> st[p] + QtyOfProduct(items, p)]

IncrementVariantStockSkipped(vst, items) == vst

IncrementVariantStock(vst, items) ==
  [v \in Variants |-> vst[v] + QtyOfVariant(items, v)]

\* ------------------------------------------------------------------ gateway
\* HMAC-SHA256 of `orderId|paymentId` under the server secret: an injective
\* function of the pair that nobody without the secret can compute
Hmac(orderId, paymentId) == <<orderId, paymentId>>

\* the signatures a caller may send with a gateway order id and a payment
\* id: the genuine one, or one made without the secret
Signatures(orderId, paymentId) == {Hmac(orderId, paymentId), Hmac(0, paymentId)}

verifyRazorpaySignatureLax(orderId, paymentId, signature) == TRUE

verifyRazorpaySignature(orderId, paymentId, signature) ==
  signature = Hmac(orderId, paymentId)

\* amounts the gateway may report for a payment, relative to the order total
PaidDeltas == {0, 1, 200}

\* -------------------------------------------------------------------- state
VARIABLES
  now,        \* the clock
  stock,      \* Product.stock
  vstock,     \* ProductVariant.stock
  carts,      \* users that have a Cart row
  cart,       \* CartItem quantities per user and line (0 = no row)
  orders,     \* Order rows, in creation order; the id is the index
  usedCount,  \* Coupon.usedCount
  addresses,  \* Address rows: the address text of each address id
  reqs        \* request slots: the handler in flight, or its response

vars == <<now, stock, vstock, carts, cart, orders, usedCount, addresses, reqs>>

db == <<stock, vstock, carts, cart, orders, usedCount, addresses>>

\* the stock counters stay within the explored range after a deduction
CanDecrement(items) ==
  /\ \A p \in Products : stock[p] - QtyOfProduct(items, p) >= 0 - MaxDebt
  /\ \A v \in Variants : vstock[v] - QtyOfVariant(items, v) >= 0 - MaxDebt

\* the stock counters stay within the explored range after a restoration
CanIncrement(items) ==
  /\ \A p \in Products : stock[p] + QtyOfProduct(items, p) <= MaxStock
  /\ \A v \in Variants : vstock[v] + QtyOfVariant(items, v) <= MaxStock

BlankReq ==
  [op |-> "none", pc |-> "done", user |-> "u1", paymentMethod |-> "COD",
   couponCode |-> NoCoupon, itemKey |-> CHOOSE k \in ItemKeys : TRUE,
   addressId |-> "a1", quantity |-> 0, items |-> EmptyItems,
   tenMinutesAgo |-> 0, discount |-> 0, id |-> 0, orderId |-> 0,
   razorpay_order_id |-> 0, razorpay_payment_id |-> "pay_A",
   razorpay_signature |-> Hmac(0, "pay_A"), paid |-> 0,
   paymentStatus |-> "PENDING", orderStatus |-> "PENDING", subtotal |-> 0,
   addressLine1 |-> "12 MG Road",
   status |-> 0]

\* a finished handler: the slot keeps who asked for what (operation, caller,
\* order id or gateway ids of the request) and the response (HTTP status, the
\* order it carries); the handler's local variables are gone
Response(r, st, oid) ==
  [BlankReq EXCEPT !.op = r.op, !.user = r.user, !.id = r.id,
                   !.razorpay_order_id = r.razorpay_order_id,
                   !.razorpay_payment_id = r.razorpay_payment_id,
                   !.razorpay_signature = r.razorpay_signature,
                   !.status = st, !.orderId = oid]

Free(s) == reqs[s].pc = "done"

At(s, op, pc) == reqs[s].op = op /\ reqs[s].pc = pc

\* slot s has just answered a request of operation op with HTTP status st
Answers(s, op, st) ==
  /\ reqs[s].pc # "done" \/ reqs'[s] # reqs[s]
  /\ reqs'[s].op = op /\ reqs'[s].pc = "done" /\ reqs'[s].status = st

Init ==
  /\ now = 0
  /\ stock = [p \in Products |-> 1]
  /\ vstock = [v \in Variants |-> 1]
  /\ carts = {}
  /\ cart = [u \in Users |-> EmptyItems]
  /\ orders = <<>>
  /\ usedCount = [c \in CouponCodes |-> 0]
  /\ addresses = [a \in Addresses |-> "12 MG Road"]
  /\ reqs = [s \in Slots |-> BlankReq]

Tick ==
  /\ now < MaxTime
  /\ now' = now + 1
  /\ UNCHANGED <<db, reqs>>

\* --------------------------------------------------------------------- cart
\* addToCart, product lookup and stock check (part_003:74-93)
AddToCartCheck(s, u, productId, variantId, quantity) ==
  /\ Free(s)
  /\ \A k \in ItemKeys :
       (k.productId = productId /\ k.variantId = variantId) =>
         cart[u][k] + quantity <= MaxCartQty
  /\ LET r == [BlankReq EXCEPT !.op = "addToCart", !.user = u,
                 !.quantity = quantity]
         k == [productId |-> productId, variantId |-> variantId]
     IN reqs' = [reqs EXCEPT ![s] =
          IF productId \notin Products \/ ~Product(productId).isActive
            THEN Response(r, 404, 0)
          ELSE IF variantId # NoVariant
            THEN IF variantId \notin Variants
                      \/ Variant(variantId).productId # productId
                   THEN Response(r, 404, 0)
                 ELSE IF vstock[variantId] < quantity
                   THEN Response(r, 400, 0)
                 ELSE [r EXCEPT !.pc = "write", !.itemKey = k]
          ELSE IF stock[productId] < quantity
            THEN Response(r, 400, 0)
          ELSE [r EXCEPT !.pc = "write", !.itemKey = k]]
  /\ UNCHANGED <<now, db>>

\* addToCart, get or create the cart, then update or create the line
\* (part_003:95-131)
AddToCartWrite(s) ==
  /\ At(s, "addToCart", "write")
  /\ LET r == reqs[s]
     IN /\ cart[r.user][r.itemKey] + r.quantity <= MaxCartQty
        /\ carts' = carts \cup {r.user}
        /\ cart' = [cart EXCEPT ![r.user][r.itemKey] = @ + r.quantity]
        /\ reqs' = [reqs EXCEPT ![s] = Response(r, 200, 0)]
  /\ UNCHANGED <<now, addresses, stock, vstock, orders, usedCount>>

\* updateCartItem, line lookup and stock check (part_003:175-191)
UpdateCartItemCheck(s, u, owner, k, quantity) ==
  /\ Free(s)
  /\ cart[owner][k] > 0
  /\ LET r == [BlankReq EXCEPT !.op = "updateCartItem", !.user = u,
                 !.quantity = quantity, !.itemKey = k]
         available == IF k.variantId # NoVariant THEN vstock[k.variantId]
                      ELSE stock[k.productId]
     IN reqs' = [reqs EXCEPT ![s] =
          IF owner # u THEN Response(r, 404, 0)
          ELSE IF quantity > available THEN Response(r, 400, 0)
          ELSE [r EXCEPT !.pc = "write"]]
  /\ UNCHANGED <<now, db>>

\* updateCartItem, the write (part_003:193-196); the row may be gone by now
UpdateCartItemWrite(s) ==
  /\ At(s, "updateCartItem", "write")
  /\ LET r == reqs[s]
     IN IF cart[r.user][r.itemKey] = 0
          THEN /\ reqs' = [reqs EXCEPT ![s] = Response(r, 500, 0)]
               /\ UNCHANGED cart
          ELSE /\ cart' = [cart EXCEPT ![r.user][r.itemKey] = r.quantity]
               /\ reqs' = [reqs EXCEPT ![s] = Response(r, 200, 0)]
  /\ UNCHANGED <<now, addresses, stock, vstock, carts, orders, usedCount>>


\* ------------------------------------------------------------------- orders
NoSignature == <<>>
NoPayment == ""

InFlightCreates ==
  Cardinality({s \in Slots : reqs[s].op = "createOrder" /\ reqs[s].pc # "done"})

\* the Order row written by tx.order.create (part_004:930-952)
NewOrder(r, subtotal, createdAt) ==
  LET shippingCharge == ShippingCharge(subtotal)
      tax == Tax(subtotal)
  IN [userId |-> r.user, addressId |-> r.addressId, items |-> r.items,
      subtotal |-> subtotal, discount |-> r.discount,
      shippingCharge |-> shippingCharge, tax |-> tax,
      total |-> Total(subtotal, r.discount, shippingCharge, tax),
      paymentMethod |-> r.paymentMethod, paymentStatus |-> "PENDING",
      orderStatus |-> "PENDING", razorpayOrderId |-> 0,
      razorpayPaymentId |-> NoPayment, razorpaySignature |-> NoSignature,
      createdAt |-> createdAt]

OrderIds == 1 .. Len(orders)

IsReusableOlder(o, u, tenMinutesAgo) ==
  /\ o.userId = u
  /\ o.paymentMethod = "RAZORPAY"
  /\ o.paymentStatus = "PENDING"
  /\ o.orderStatus = "PENDING"
  /\ o.razorpayOrderId # 0
  /\ o.createdAt <= tenMinutesAgo

\* where: the pending gateway order of a user that createOrder reuses
\* (part_004:821-829)
IsReusable(o, u, tenMinutesAgo) ==
  /\ o.userId = u
  /\ o.paymentMethod = "RAZORPAY"
  /\ o.paymentStatus = "PENDING"
  /\ o.orderStatus = "PENDING"
  /\ o.razorpayOrderId # 0
  /\ o.createdAt >= tenMinutesAgo

\* where: the expired pending gateway orders createOrder cancels
\* (part_004:854-860)
IsStale(o, u, tenMinutesAgo) ==
  /\ o.userId = u
  /\ o.paymentMethod = "RAZORPAY"
  /\ o.paymentStatus = "PENDING"
  /\ o.orderStatus = "PENDING"
  /\ o.createdAt < tenMinutesAgo

\* createOrder, address ownership (part_004:793-797)
CreateOrderAddress(s, u, addressId, paymentMethod, couponCode) ==
  /\ Free(s)
  /\ Len(orders) + InFlightCreates < MaxOrders
  /\ paymentMethod = "COD" => CanDecrement(cart[u])
  /\ LET r == [BlankReq EXCEPT !.op = "createOrder", !.user = u,
                 !.addressId = addressId, !.paymentMethod = paymentMethod,
                 !.couponCode = couponCode]
     IN reqs' = [reqs EXCEPT ![s] =
          IF AddressOwner(addressId) # u THEN Response(r, 404, 0)
          ELSE [r EXCEPT !.pc = "cart"]]
  /\ UNCHANGED <<now, db>>

HasNoItemsNever(u) == FALSE

\* the empty-cart gate of createOrder (part_004:812-814)
HasNoItems(u) == u \notin carts \/ cart[u] = EmptyItems

\* createOrder, cart lookup (part_004:799-819)
CreateOrderCart(s) ==
  /\ At(s, "createOrder", "cart")
  /\ LET r == reqs[s]
     IN reqs' = [reqs EXCEPT ![s] =
          IF HasNoItems(r.user)
            THEN Response(r, 400, 0)
          ELSE [r EXCEPT !.items = cart[r.user],
                         !.tenMinutesAgo = now - TenMinutes,
                         !.pc = IF r.paymentMethod = "RAZORPAY" THEN "dedup"
                                ELSE IF r.couponCode # NoCoupon THEN "coupon"
                                ELSE "tx"]]
  /\ UNCHANGED <<now, db>>

\* createOrder, reuse of a pending gateway order (part_004:821-850)
CreateOrderDedup(s) ==
  /\ At(s, "createOrder", "dedup")
  /\ LET r == reqs[s]
         found == {i \in OrderIds : IsReusable(orders[i], r.user, r.tenMinutesAgo)}
         latest == {i \in found :
                      \A j \in found : orders[j].createdAt <= orders[i].createdAt}
     IN IF found = {}
          THEN reqs' = [reqs EXCEPT ![s].pc = "stale"]
          ELSE \E i \in latest : reqs' = [reqs EXCEPT ![s] = Response(r, 200, i)]
  /\ UNCHANGED <<now, db>>

\* createOrder, cancellation of expired pending gateway orders
\* (part_004:852-866)
CreateOrderCancelStale(s) ==
  /\ At(s, "createOrder", "stale")
  /\ LET r == reqs[s]
     IN /\ orders' = [i \in OrderIds |->
                        IF IsStale(orders[i], r.user, r.tenMinutesAgo)
                          THEN [orders[i] EXCEPT !.orderStatus = "CANCELLED",
                                                 !.paymentStatus = "FAILED"]
                          ELSE orders[i]]
        /\ reqs' = [reqs EXCEPT ![s].pc =
                      IF r.couponCode # NoCoupon THEN "coupon" ELSE "tx"]
  /\ UNCHANGED <<now, addresses, stock, vstock, carts, cart, usedCount>>

\* the gates createOrder puts on a coupon row (part_004:894-901)
CouponApplies(code, subtotal, count, time) ==
  /\ code \in CouponCodes
  /\ Coupon(code).isActive
  /\ count < Coupon(code).usageLimit
  /\ time >= Coupon(code).validFrom
  /\ time <= Coupon(code).validUntil
  /\ subtotal >= Coupon(code).minPurchase

\* createOrder, coupon lookup and discount (part_004:890-909)
CreateOrderCoupon(s) ==
  /\ At(s, "createOrder", "coupon")
  /\ LET r == reqs[s]
         subtotal == Subtotal(r.items)
     IN reqs' = [reqs EXCEPT ![s] =
          IF CouponApplies(r.couponCode, subtotal, usedCount[r.couponCode], now)
            THEN [r EXCEPT !.discount = CouponDiscount(Coupon(r.couponCode), subtotal),
                           !.pc = "couponUse"]
            ELSE [r EXCEPT !.pc = "tx"]]
  /\ UNCHANGED <<now, db>>

\* createOrder, coupon usage increment (part_004:911-915)
CreateOrderCouponUse(s) ==
  /\ At(s, "createOrder", "couponUse")
  /\ usedCount' = [usedCount EXCEPT ![reqs[s].couponCode] = @ + 1]
  /\ reqs' = [reqs EXCEPT ![s].pc = "tx"]
  /\ UNCHANGED <<now, addresses, stock, vstock, carts, cart, orders>>

CodSettlesNothing(paymentMethod) == FALSE

CodSettlesAlways(paymentMethod) == TRUE

\* the branch of the transaction that settles stock and cart (part_004:955)
CodSettles(paymentMethod) == paymentMethod = "COD"

\* createOrder, the transaction (part_004:929-973).  It commits as a whole or,
\* when the database rejects a write, not at all.
CreateOrderTx(s) ==
  /\ At(s, "createOrder", "tx")
  /\ LET r == reqs[s]
         id == Len(orders) + 1
     IN \E commit \in BOOLEAN :
          /\ commit /\ CodSettles(r.paymentMethod) => CanDecrement(r.items)
          /\ IF ~commit
               THEN /\ reqs' = [reqs EXCEPT ![s] = Response(r, 500, 0)]
                    /\ UNCHANGED <<stock, vstock, cart, orders>>
               ELSE /\ orders' = Append(orders, NewOrder(r, Subtotal(r.items), now))
                    /\ IF CodSettles(r.paymentMethod)
                         THEN /\ stock' = DecrementStock(stock, r.items)
                              /\ vstock' = DecrementVariantStock(vstock, r.items)
                              /\ cart' = [cart EXCEPT ![r.user] = EmptyItems]
                              /\ reqs' = [reqs EXCEPT ![s] = Response(r, 201, id)]
                         ELSE /\ UNCHANGED <<stock, vstock, cart>>
                              /\ reqs' = [reqs EXCEPT ![s] =
                                            [r EXCEPT !.orderId = id, !.pc = "gateway"]]
  /\ UNCHANGED <<now, addresses, carts, usedCount>>

\* createOrder, the gateway order (part_004:975-981, part_009:279-321)
CreateOrderGateway(s) ==
  /\ At(s, "createOrder", "gateway")
  /\ LET r == reqs[s]
     IN \E gatewayOk \in BOOLEAN :
          reqs' = [reqs EXCEPT ![s] =
            IF orders[r.orderId].total <= 0 \/ ~gatewayOk
              THEN Response(r, 500, 0)
              ELSE [r EXCEPT !.pc = "gatewayId"]]
  /\ UNCHANGED <<now, db>>

\* createOrder, the gateway order id is stored (part_004:983-1021)
CreateOrderGatewayId(s) ==
  /\ At(s, "createOrder", "gatewayId")
  /\ LET r == reqs[s]
     IN /\ orders' = [orders EXCEPT ![r.orderId].razorpayOrderId = r.orderId]
        /\ reqs' = [reqs EXCEPT ![s] = Response(r, 201, r.orderId)]
  /\ UNCHANGED <<now, addresses, stock, vstock, carts, cart, usedCount>>


\* ------------------------------------------------------------------ payment
IsOwnerAnyone(o, u) == TRUE

\* the ownership gate of verifyPayment (part_004:1073)
IsOwner(o, u) == o.userId = u

\* verifyPayment, signature gate, order lookup and ownership gate
\* (part_004:1045-1075)
VerifyPaymentSignature(s, u, razorpay_order_id, razorpay_payment_id, razorpay_signature) ==
  /\ Free(s)
  /\ LET r == [BlankReq EXCEPT !.op = "verifyPayment", !.user = u,
                 !.razorpay_order_id = razorpay_order_id,
                 !.razorpay_payment_id = razorpay_payment_id,
                 !.razorpay_signature = razorpay_signature]
         found == {i \in OrderIds : orders[i].razorpayOrderId = razorpay_order_id}
     IN IF ~verifyRazorpaySignature(razorpay_order_id, razorpay_payment_id,
                                    razorpay_signature)
          THEN /\ orders' = [i \in OrderIds |->
                               IF i \in found
                                 THEN [orders[i] EXCEPT !.paymentStatus = "FAILED"]
                                 ELSE orders[i]]
               /\ reqs' = [reqs EXCEPT ![s] = Response(r, 400, 0)]
          ELSE /\ UNCHANGED orders
               /\ IF found = {}
                    THEN reqs' = [reqs EXCEPT ![s] = Response(r, 404, 0)]
                    ELSE \E i \in found :
                           /\ IsOwner(orders[i], u) => CanDecrement(orders[i].items)
                           /\ reqs' = [reqs EXCEPT ![s] =
                                IF ~IsOwner(orders[i], u)
                                  THEN Response(r, 403, 0)
                                  ELSE [r EXCEPT !.orderId = i, !.pc = "fetch"]]
  /\ UNCHANGED <<now, addresses, stock, vstock, carts, cart, usedCount>>

AmountMismatchNever(paid, total) == FALSE

\* the amount gate (part_004:1080-1083), amounts in paise
AmountMismatch(paid, total) == Abs(paid - total) > AmountEpsilon

\* verifyPayment, the amount reported by the gateway (part_004:1077-1097)
VerifyPaymentFetch(s) ==
  /\ At(s, "verifyPayment", "fetch")
  /\ LET r == reqs[s]
         total == orders[r.orderId].total
     IN \E fetched \in BOOLEAN, delta \in PaidDeltas :
          reqs' = [reqs EXCEPT ![s] =
            IF ~fetched THEN Response(r, 500, 0)
            ELSE IF AmountMismatch(total + delta, total)
              THEN [r EXCEPT !.paid = total + delta, !.pc = "mismatch"]
            ELSE [r EXCEPT !.paid = total + delta, !.pc = "tx"]]
  /\ UNCHANGED <<now, db>>

\* verifyPayment, amount mismatch recorded (part_004:1087-1091)
VerifyPaymentMismatch(s) ==
  /\ At(s, "verifyPayment", "mismatch")
  /\ LET r == reqs[s]
     IN /\ orders' = [orders EXCEPT ![r.orderId].paymentStatus = "FAILED"]
        /\ reqs' = [reqs EXCEPT ![s] = Response(r, 400, 0)]
  /\ UNCHANGED <<now, addresses, stock, vstock, carts, cart, usedCount>>

\* verifyPayment, the transaction (part_004:1099-1142)
VerifyPaymentTx(s) ==
  /\ At(s, "verifyPayment", "tx")
  /\ LET r == reqs[s]
         o == orders[r.orderId]
     IN /\ CanDecrement(o.items)
        /\ orders' = [orders EXCEPT ![r.orderId] =
                        [o EXCEPT !.paymentStatus = "PAID",
                                  !.orderStatus = "CONFIRMED",
                                  !.razorpayPaymentId = r.razorpay_payment_id,
                                  !.razorpaySignature = r.razorpay_signature]]
        /\ stock' = DecrementStock(stock, o.items)
        /\ vstock' = DecrementVariantStock(vstock, o.items)
        /\ cart' = IF o.userId \in carts
                     THEN [cart EXCEPT ![o.userId] = EmptyItems]
                     ELSE cart
        /\ reqs' = [reqs EXCEPT ![s] = Response(r, 200, r.orderId)]
  /\ UNCHANGED <<now, addresses, carts, usedCount>>

\* ------------------------------------------------------------- cancellation
CancellableLate == {"PENDING", "CONFIRMED", "DELIVERED"}

\* the order statuses cancelOrder accepts (part_004:1256)
Cancellable == {"PENDING", "CONFIRMED"}

RefundStatusKept(paymentStatus) == paymentStatus

\* the paymentStatus cancelOrder writes (part_004:1278-1279)
RefundStatus(paymentStatus) ==
  IF paymentStatus = "PAID" THEN "REFUNDED" ELSE paymentStatus

\* cancelOrder, lookup and gates (part_004:1246-1258)
CancelOrderRead(s, u, id) ==
  /\ Free(s)
  /\ (/\ id \in OrderIds
      /\ orders[id].userId = u
      /\ orders[id].orderStatus \in Cancellable) => CanIncrement(orders[id].items)
  /\ LET r == [BlankReq EXCEPT !.op = "cancelOrder", !.user = u, !.id = id]
     IN reqs' = [reqs EXCEPT ![s] =
          IF id \notin OrderIds THEN Response(r, 404, 0)
          ELSE IF orders[id].userId # u THEN Response(r, 403, 0)
          ELSE IF orders[id].orderStatus \notin Cancellable
            THEN Response(r, 400, 0)
          ELSE [r EXCEPT !.orderId = id, !.pc = "tx",
                         !.paymentStatus = orders[id].paymentStatus]]
  /\ UNCHANGED <<now, db>>

\* cancelOrder, the transaction (part_004:1260-1289)
CancelOrderTx(s) ==
  /\ At(s, "cancelOrder", "tx")
  /\ LET r == reqs[s]
         o == orders[r.orderId]
     IN /\ CanIncrement(o.items)
        /\ stock' = IncrementStock(stock, o.items)
        /\ vstock' = IncrementVariantStock(vstock, o.items)
        /\ orders' = [orders EXCEPT ![r.orderId] =
                        [o EXCEPT !.orderStatus = "CANCELLED",
                                  !.paymentStatus = RefundStatus(r.paymentStatus)]]
        /\ reqs' = [reqs EXCEPT ![s] = Response(r, 200, 0)]
  /\ UNCHANGED <<now, addresses, carts, cart, usedCount>>

\* ------------------------------------------------------------ coupon preview
\* the coupon codes a client may type
CouponTexts == {"WELCOME10", "welcome10"}

\* the subtotals a client may send to validateCoupon (0 = none sent)
PreviewSubtotals == {0, 50000, 149900}

\* String.prototype.toUpperCase on the codes a client may type
ToUpperCase(code) == IF code = "welcome10" THEN "WELCOME10" ELSE code

\* Math.round of an amount in paise to whole rupees
RoundRupees(x) == RoundDiv(x, 100) * 100

\* the response of validateCoupon: the code and subtotal sent, the discount
\* returned
CouponResponse(r, st, discount) ==
  [Response(r, st, 0) EXCEPT !.couponCode = r.couponCode,
                             !.subtotal = r.subtotal, !.discount = discount]

ValidateCouponCounting(s, u, couponCode, subtotal) ==
  /\ Free(s)
  /\ reqs' = [reqs EXCEPT ![s] =
       CouponResponse([BlankReq EXCEPT !.op = "validateCoupon", !.user = u,
                         !.couponCode = couponCode, !.subtotal = subtotal],
                      200, 0)]
  /\ usedCount' = [c \in CouponCodes |-> usedCount[c] + 1]
  /\ UNCHANGED <<now, addresses, stock, vstock, carts, cart, orders>>

\* validateCoupon (part_004:1299-1367)
ValidateCoupon(s, u, couponCode, subtotal) ==
  /\ Free(s)
  /\ LET r == [BlankReq EXCEPT !.op = "validateCoupon", !.user = u,
                 !.couponCode = couponCode, !.subtotal = subtotal]
         code == ToUpperCase(couponCode)
         c == Coupon(code)
         discount == IF subtotal > 0 THEN CouponDiscount(c, subtotal) ELSE 0
     IN reqs' = [reqs EXCEPT ![s] =
          IF couponCode = NoCoupon THEN CouponResponse(r, 400, 0)
          ELSE IF code \notin CouponCodes THEN CouponResponse(r, 404, 0)
          ELSE IF ~c.isActive THEN CouponResponse(r, 400, 0)
          ELSE IF usedCount[code] >= c.usageLimit THEN CouponResponse(r, 400, 0)
          ELSE IF now < c.validFrom THEN CouponResponse(r, 400, 0)
          ELSE IF now > c.validUntil THEN CouponResponse(r, 400, 0)
          ELSE IF subtotal > 0 /\ subtotal < c.minPurchase
            THEN CouponResponse(r, 400, 0)
          ELSE CouponResponse(r, 200, RoundRupees(discount))]
  /\ UNCHANGED <<now, db>>

\* ---------------------------------------------------------------- addresses
\* the address lines a user may save
AddressLines == {"12 MG Road", "7 Park Street"}

\* the shipping address an order is read with: the Address row its addressId
\* points to (include: address, part_004:1214)
ShippingAddress(o) == addresses[o.addressId]

\* updateAddress, lookup and ownership (visitorController.ts:397-410)
UpdateAddressRead(s, u, id, addressLine1) ==
  /\ Free(s)
  /\ LET r == [BlankReq EXCEPT !.op = "updateAddress", !.user = u,
                 !.addressId = id, !.addressLine1 = addressLine1]
     IN reqs' = [reqs EXCEPT ![s] =
          IF AddressOwner(id) # u THEN Response(r, 404, 0)
          ELSE [r EXCEPT !.pc = "write"]]
  /\ UNCHANGED <<now, db>>

\* updateAddress, the write (visitorController.ts:419-429)
UpdateAddressWrite(s) ==
  /\ At(s, "updateAddress", "write")
  /\ LET r == reqs[s]
     IN /\ addresses' = [addresses EXCEPT ![r.addressId] = r.addressLine1]
        /\ reqs' = [reqs EXCEPT ![s] = Response(r, 200, 0)]
  /\ UNCHANGED <<now, stock, vstock, carts, cart, orders, usedCount>>

\* -------------------------------------------------------------------- admin
Admin == "admin"

\* z.enum of updateOrderStatusSchema (part_009:113-124)
OrderStatuses ==
  {"PENDING", "CONFIRMED", "PROCESSING", "SHIPPED", "DELIVERED", "CANCELLED",
   "RETURNED"}

\* updateOrderStatus, order lookup (adminController.ts:182-198)
UpdateOrderStatusRead(s, id, orderStatus) ==
  /\ Free(s)
  /\ LET r == [BlankReq EXCEPT !.op = "updateOrderStatus", !.user = Admin,
                 !.id = id, !.orderStatus = orderStatus]
     IN reqs' = [reqs EXCEPT ![s] =
          IF id \notin OrderIds THEN Response(r, 404, 0)
          ELSE [r EXCEPT !.orderId = id, !.pc = "write",
                         !.paymentMethod = orders[id].paymentMethod]]
  /\ UNCHANGED <<now, db>>

\* updateOrderStatus, the write (adminController.ts:200-213)
UpdateOrderStatusWrite(s) ==
  /\ At(s, "updateOrderStatus", "write")
  /\ LET r == reqs[s]
         o == orders[r.orderId]
     IN /\ orders' = [orders EXCEPT ![r.orderId] =
                        [o EXCEPT !.orderStatus = r.orderStatus,
                                  !.paymentStatus =
                                    IF r.orderStatus = "DELIVERED"
                                       /\ r.paymentMethod = "COD"
                                      THEN "PAID" ELSE @]]
        /\ reqs' = [reqs EXCEPT ![s] = Response(r, 200, r.orderId)]
  /\ UNCHANGED <<now, addresses, stock, vstock, carts, cart, usedCount>>

\* ------------------------------------------------------------ specification
AddToCartStep(s) ==
  \/ \E u \in Shoppers, p \in Products \cup {"p0"}, v \in Variants \cup {NoVariant},
        q \in 1 .. MaxAddQty : AddToCartCheck(s, u, p, v, q)
  \/ AddToCartWrite(s)

UpdateCartItemStep(s) ==
  \/ \E u \in Users, owner \in Users, k \in ItemKeys, q \in 1 .. MaxCartQty :
        UpdateCartItemCheck(s, u, owner, k, q)
  \/ UpdateCartItemWrite(s)

CreateOrderStep(s) ==
  \/ \E u \in Users, a \in Addresses, m \in {"COD", "RAZORPAY"},
        c \in CouponInputs : CreateOrderAddress(s, u, a, m, c)
  \/ CreateOrderCart(s)
  \/ CreateOrderDedup(s)
  \/ CreateOrderCancelStale(s)
  \/ CreateOrderCoupon(s)
  \/ CreateOrderCouponUse(s)
  \/ CreateOrderTx(s)
  \/ CreateOrderGateway(s)
  \/ CreateOrderGatewayId(s)

VerifyPaymentStep(s, payments) ==
  \/ \E u \in Users, o \in RzpIds, p \in payments :
        \E g \in Signatures(o, p) : VerifyPaymentSignature(s, u, o, p, g)
  \/ VerifyPaymentFetch(s)
  \/ VerifyPaymentMismatch(s)
  \/ VerifyPaymentTx(s)

CancelOrderStep(s) ==
  \/ \E u \in Users, id \in 1 .. MaxOrders : CancelOrderRead(s, u, id)
  \/ CancelOrderTx(s)

UpdateOrderStatusStep(s) ==
  \/ \E id \in 1 .. MaxOrders, st \in OrderStatuses : UpdateOrderStatusRead(s, id, st)
  \/ UpdateOrderStatusWrite(s)

\* cart, checkout and payment, one request after the other, at one instant
Next ==
  \/ AddToCartStep(1)
  \/ UpdateCartItemStep(1)
  \/ CreateOrderStep(1)
  \/ VerifyPaymentStep(1, PaymentIds)

Spec == Init /\ [][Next]_vars

\* checkout and payment while time passes
NextClock ==
  \/ Tick
  \/ AddToCartStep(1)
  \/ CreateOrderStep(1)
  \/ VerifyPaymentStep(1, {"pay_A"})

SpecClock == Init /\ [][NextClock]_vars

\* checkout, payment and cancellation
NextCancel ==
  \/ AddToCartStep(1)
  \/ CreateOrderStep(1)
  \/ VerifyPaymentStep(1, {"pay_A"})
  \/ CancelOrderStep(1)

SpecCancel == Init /\ [][NextCancel]_vars

\* createOrder with cash on delivery and without coupon
CodOrderStep(s) ==
  \/ \E u \in Users, a \in Addresses : CreateOrderAddress(s, u, a, "COD", NoCoupon)
  \/ CreateOrderCart(s)
  \/ CreateOrderTx(s)

\* COD checkout, cancellation and the admin's status updates
NextAdmin ==
  \/ AddToCartStep(1)
  \/ CodOrderStep(1)
  \/ CancelOrderStep(1)
  \/ UpdateOrderStatusStep(1)

SpecAdmin == Init /\ [][NextAdmin]_vars

ValidateCouponStep(s) ==
  \E u \in Users, c \in CouponTexts \cup {NoCoupon}, x \in PreviewSubtotals :
    ValidateCoupon(s, u, c, x)

\* createOrder with cash on delivery and a coupon code
CouponOrderStep(s) ==
  \/ \E u \in Users, a \in Addresses, c \in CouponTexts :
        CreateOrderAddress(s, u, a, "COD", c)
  \/ CreateOrderCart(s)
  \/ CreateOrderCoupon(s)
  \/ CreateOrderCouponUse(s)
  \/ CreateOrderTx(s)

\* two checkouts with the coupon at the same time
NextRace ==
  \/ AddToCartStep(1)
  \/ CouponOrderStep(1)
  \/ CouponOrderStep(2)

SpecRace == Init /\ [][NextRace]_vars

UpdateAddressStep(s) ==
  \/ \E u \in Users, a \in Addresses, l \in AddressLines : UpdateAddressRead(s, u, a, l)
  \/ UpdateAddressWrite(s)

\* COD checkout and the user's address book
NextAddress ==
  \/ AddToCartStep(1)
  \/ CodOrderStep(1)
  \/ UpdateAddressStep(1)

SpecAddress == Init /\ [][NextAddress]_vars

\* createOrder with the gateway method and without coupon
GatewayOrderStep(s) ==
  \/ \E u \in Users, a \in Addresses :
        CreateOrderAddress(s, u, a, "RAZORPAY", NoCoupon)
  \/ CreateOrderCart(s)
  \/ CreateOrderDedup(s)
  \/ CreateOrderCancelStale(s)
  \/ CreateOrderTx(s)
  \/ CreateOrderGateway(s)
  \/ CreateOrderGatewayId(s)

\* verifyPayment with the signature the gateway issued
GenuinePaymentStep(s) ==
  \/ \E u \in Users, o \in RzpIds :
        VerifyPaymentSignature(s, u, o, "pay_A", Hmac(o, "pay_A"))
  \/ VerifyPaymentFetch(s)
  \/ VerifyPaymentMismatch(s)
  \/ VerifyPaymentTx(s)

\* a cancellation while a payment is being verified
NextPair ==
  \/ AddToCartStep(1)
  \/ GatewayOrderStep(1)
  \/ CancelOrderStep(1)
  \/ GenuinePaymentStep(2)

SpecPair == Init /\ [][NextPair]_vars

\* two cancellations at the same time
NextTwoCancels ==
  \/ AddToCartStep(1)
  \/ CodOrderStep(1)
  \/ CancelOrderStep(1)
  \/ CancelOrderStep(2)

SpecTwoCancels == Init /\ [][NextTwoCancels]_vars

\* the coupon preview and a checkout with a coupon code
NextCoupon ==
  \/ ValidateCouponStep(1)
  \/ AddToCartStep(2)
  \/ CouponOrderStep(2)

SpecCoupon == Init /\ [][NextCoupon]_vars

\* ------------------------------------------------------------------- claims
Took(s) == reqs'[s] # reqs[s]

InFlight(s, op) == reqs[s].op = op /\ reqs[s].pc # "done"

\* slot s receives a request of operation op in this step
Receives(s, op) == Free(s) /\ Took(s) /\ reqs'[s].op = op

\* C1: in every reachable state every product stock counter and every variant
\* stock counter is greater than or equal to 0.
StockNeverNegative ==
  /\ \A p \in Products : stock[p] >= 0
  /\ \A v \in Variants : vstock[v] >= 0

\* a COD order of the variant line was placed although the product counter,
\* which addToCart does not look at for a variant line, was already at 0
VariantOrderOverdrawsProduct ==
  /\ \E p \in Products : stock[p] < 0
  /\ \A v \in Variants : vstock[v] >= 0
  /\ \E i \in OrderIds :
       /\ orders[i].paymentMethod = "COD"
       /\ \E k \in ItemKeys : k.variantId # NoVariant /\ orders[i].items[k] > 0

\* C2: the transaction of a COD createOrder either commits the order row, the
\* stock decrement by every cart line's quantity (product and variant) and the
\* emptying of the user's cart in one step, or applies none of them; a COD
\* order row appears in no other way.
CodOrderIsAtomic ==
  [][/\ \A s \in Slots :
          (At(s, "createOrder", "tx") /\ reqs[s].paymentMethod = "COD" /\ Took(s)) =>
            LET u == reqs[s].user
                n == Len(orders) + 1
            IN \/ /\ Answers(s, "createOrder", 201)
                  /\ Len(orders') = n
                  /\ \A i \in OrderIds : orders'[i] = orders[i]
                  /\ orders'[n].paymentMethod = "COD"
                  /\ orders'[n].userId = u
                  /\ orders'[n].items = cart[u]
                  /\ cart[u] # EmptyItems
                  /\ \A p \in Products :
                       stock'[p] = stock[p] - QtyOfProduct(cart[u], p)
                  /\ \A v \in Variants :
                       vstock'[v] = vstock[v] - QtyOfVariant(cart[u], v)
                  /\ cart' = [cart EXCEPT ![u] = EmptyItems]
               \/ /\ Answers(s, "createOrder", 500)
                  /\ UNCHANGED <<orders, stock, vstock, cart>>
     /\ (Len(orders') > Len(orders) /\ orders'[Len(orders')].paymentMethod = "COD") =>
          \E s \in Slots : At(s, "createOrder", "tx") /\ Took(s)
    ]_vars

CodOrderPlaced ==
  \E s \in Slots :
    /\ reqs[s].op = "createOrder" /\ reqs[s].pc = "done" /\ reqs[s].status = 201
    /\ reqs[s].orderId \in OrderIds
    /\ orders[reqs[s].orderId].paymentMethod = "COD"
    /\ \E k \in ItemKeys : k.variantId # NoVariant /\ orders[reqs[s].orderId].items[k] > 0
    /\ cart[reqs[s].user] = EmptyItems
    /\ \E v \in Variants : vstock[v] = 0

\* C3: no step of a createOrder with the gateway method changes a stock counter
\* or a cart; a stock counter falls only in the transaction of a COD createOrder
\* or of a verifyPayment that succeeds, and a cart line shrinks only there or
\* when the user edits the cart.
GatewayOrderDefersSettlement ==
  [][/\ \A s \in Slots :
          (InFlight(s, "createOrder") /\ reqs[s].paymentMethod = "RAZORPAY" /\ Took(s))
            => UNCHANGED <<stock, vstock, cart>>
     /\ \A s \in Slots : Receives(s, "createOrder") => UNCHANGED <<stock, vstock, cart>>
     /\ (\/ \E p \in Products : stock'[p] < stock[p]
         \/ \E v \in Variants : vstock'[v] < vstock[v]
         \/ \E u \in Users, k \in ItemKeys :
              /\ cart'[u][k] < cart[u][k]
              /\ \A s \in Slots : ~(At(s, "updateCartItem", "write") /\ Took(s)))
          => \E s \in Slots :
               \/ /\ At(s, "createOrder", "tx") /\ reqs[s].paymentMethod = "COD"
                  /\ Answers(s, "createOrder", 201)
               \/ /\ At(s, "verifyPayment", "tx")
                  /\ Answers(s, "verifyPayment", 200)
    ]_vars

UnpaidGatewayOrderHoldsNothing ==
  \E s \in Slots :
    /\ reqs[s].op = "createOrder" /\ reqs[s].pc = "done" /\ reqs[s].status = 201
    /\ reqs[s].orderId \in OrderIds
    /\ LET o == orders[reqs[s].orderId]
       IN /\ o.paymentMethod = "RAZORPAY" /\ o.razorpayOrderId # 0
          /\ o.paymentStatus = "PENDING"
          /\ cart[o.userId] = o.items
          /\ \A p \in Products : stock[p] = 1
          /\ \A v \in Variants : vstock[v] = 1

\* C4: a verifyPayment request reaches its transaction only with a genuine
\* signature and as the owner of the order, and the transaction sets PAID and
\* CONFIRMED, stores payment id and signature, decrements product and variant
\* stock by every order item's quantity and empties the owner's cart, all in
\* one step; a gateway order becomes PAID in no other way.
VerifiedPaymentIsAtomic ==
  [][/\ \A s \in Slots :
          (At(s, "verifyPayment", "tx") /\ Took(s)) =>
            LET r == reqs[s]
                o == orders[r.orderId]
            IN /\ o.userId = r.user
               /\ r.razorpay_signature = Hmac(o.razorpayOrderId, r.razorpay_payment_id)
               /\ Abs(r.paid - o.total) <= AmountEpsilon
               /\ Answers(s, "verifyPayment", 200)
               /\ reqs'[s].orderId = r.orderId
               /\ orders' = [orders EXCEPT ![r.orderId] =
                    [o EXCEPT !.paymentStatus = "PAID", !.orderStatus = "CONFIRMED",
                              !.razorpayPaymentId = r.razorpay_payment_id,
                              !.razorpaySignature = r.razorpay_signature]]
               /\ \A p \in Products : stock'[p] = stock[p] - QtyOfProduct(o.items, p)
               /\ \A v \in Variants : vstock'[v] = vstock[v] - QtyOfVariant(o.items, v)
               /\ cart' = [cart EXCEPT ![o.userId] = EmptyItems]
     /\ \A i \in OrderIds :
          (orders[i].paymentStatus # "PAID" /\ orders'[i].paymentStatus = "PAID") =>
            \E s \in Slots :
              At(s, "verifyPayment", "tx") /\ reqs[s].orderId = i /\ Took(s)
    ]_vars

PaymentVerified ==
  \E s \in Slots :
    /\ reqs[s].op = "verifyPayment" /\ reqs[s].pc = "done" /\ reqs[s].status = 200
    /\ LET o == orders[reqs[s].orderId]
       IN /\ o.paymentStatus = "PAID" /\ o.orderStatus = "CONFIRMED"
          /\ o.razorpayPaymentId = reqs[s].razorpay_payment_id
          /\ \E k \in ItemKeys : k.variantId # NoVariant /\ o.items[k] > 0
          /\ cart[o.userId] = EmptyItems
          /\ \E v \in Variants : vstock[v] = 0

\* C5: a verifyPayment request whose signature is not the HMAC of
\* `orderId|paymentId` is answered 400 at once; it sets paymentStatus FAILED on
\* every order carrying that gateway order id, changes nothing else, and so
\* sets no order to PAID.
TamperedSignatureFails ==
  [][\A s \in Slots :
       (/\ Receives(s, "verifyPayment")
        /\ reqs'[s].razorpay_signature #
             Hmac(reqs'[s].razorpay_order_id, reqs'[s].razorpay_payment_id)) =>
         /\ Answers(s, "verifyPayment", 400)
         /\ Len(orders') = Len(orders)
         /\ \A i \in OrderIds :
              /\ orders[i].razorpayOrderId = reqs'[s].razorpay_order_id =>
                   orders'[i] = [orders[i] EXCEPT !.paymentStatus = "FAILED"]
              /\ orders[i].razorpayOrderId # reqs'[s].razorpay_order_id =>
                   orders'[i] = orders[i]
              /\ orders'[i].paymentStatus = "PAID" => orders[i].paymentStatus = "PAID"
         /\ UNCHANGED <<stock, vstock, carts, cart, usedCount>>
    ]_vars

TamperedSignatureRejected ==
  \E s \in Slots :
    /\ reqs[s].op = "verifyPayment" /\ reqs[s].pc = "done" /\ reqs[s].status = 400
    /\ reqs[s].razorpay_signature #
         Hmac(reqs[s].razorpay_order_id, reqs[s].razorpay_payment_id)
    /\ \E i \in OrderIds :
         /\ orders[i].razorpayOrderId = reqs[s].razorpay_order_id
         /\ orders[i].paymentStatus = "FAILED"
         /\ orders[i].orderStatus = "PENDING"

\* C6: a verifyPayment request of the owner with a genuine signature goes to
\* the mismatch branch exactly when the amount the gateway reports differs
\* from the order total by more than 0.01; that branch answers 400, sets the
\* order's paymentStatus to FAILED and changes nothing else.
AmountMismatchFails ==
  [][\A s \in Slots :
       /\ (At(s, "verifyPayment", "fetch") /\ Took(s) /\ reqs'[s].pc # "done") =>
            /\ reqs'[s].pc \in {"mismatch", "tx"}
            /\ reqs'[s].pc = "mismatch" <=>
                 Abs(reqs'[s].paid - orders[reqs[s].orderId].total) > AmountEpsilon
            /\ UNCHANGED db
       /\ (At(s, "verifyPayment", "mismatch") /\ Took(s)) =>
            LET r == reqs[s]
                o == orders[r.orderId]
            IN /\ o.userId = r.user
               /\ r.razorpay_signature = Hmac(o.razorpayOrderId, r.razorpay_payment_id)
               /\ Answers(s, "verifyPayment", 400)
               /\ orders' = [orders EXCEPT ![r.orderId].paymentStatus = "FAILED"]
               /\ UNCHANGED <<stock, vstock, carts, cart, usedCount>>
    ]_vars

AmountMismatchRejected ==
  \E s \in Slots :
    /\ reqs[s].op = "verifyPayment" /\ reqs[s].pc = "done" /\ reqs[s].status = 400
    /\ reqs[s].razorpay_signature =
         Hmac(reqs[s].razorpay_order_id, reqs[s].razorpay_payment_id)
    /\ \E i \in OrderIds :
         /\ orders[i].razorpayOrderId = reqs[s].razorpay_order_id
         /\ orders[i].userId = reqs[s].user
         /\ orders[i].paymentStatus = "FAILED"
         /\ orders[i].orderStatus = "PENDING"
         /\ cart[orders[i].userId] = orders[i].items

\* C7: a verifyPayment request with a genuine signature from a user who does
\* not own the order with that gateway order id is answered 403 at once and
\* changes nothing.
NonOwnerIsForbidden ==
  [][\A s \in Slots :
       (/\ Receives(s, "verifyPayment")
        /\ reqs'[s].razorpay_signature =
             Hmac(reqs'[s].razorpay_order_id, reqs'[s].razorpay_payment_id)
        /\ \E i \in OrderIds :
             /\ orders[i].razorpayOrderId = reqs'[s].razorpay_order_id
             /\ orders[i].userId # reqs'[s].user) =>
         /\ Answers(s, "verifyPayment", 403)
         /\ UNCHANGED db
    ]_vars

NonOwnerRejected ==
  \E s \in Slots :
    /\ reqs[s].op = "verifyPayment" /\ reqs[s].pc = "done" /\ reqs[s].status = 403
    /\ reqs[s].razorpay_signature =
         Hmac(reqs[s].razorpay_order_id, reqs[s].razorpay_payment_id)
    /\ \E i \in OrderIds :
         /\ orders[i].razorpayOrderId = reqs[s].razorpay_order_id
         /\ orders[i].userId # reqs[s].user
         /\ orders[i].paymentStatus = "PENDING"

\* C8: every order row satisfies total = subtotal - discount + shippingCharge
\* + tax, with tax = round(0.18 * subtotal) in whole rupees and shippingCharge
\* 0 from a subtotal of 999 rupees on and 99 rupees below; a subtotal of 500
\* without coupon gives shipping 99, tax 90 and total 689.
OrderTotalsAddUp ==
  \A i \in OrderIds :
    LET o == orders[i]
    IN /\ o.total = o.subtotal - o.discount + o.shippingCharge + o.tax
       /\ o.tax % 100 = 0
       /\ 18 * o.subtotal - 5000 < 100 * o.tax
       /\ 100 * o.tax <= 18 * o.subtotal + 5000
       /\ o.shippingCharge = IF o.subtotal < 99900 THEN 9900 ELSE 0
       /\ (o.subtotal = 50000 /\ o.discount = 0) =>
            (o.shippingCharge = 9900 /\ o.tax = 9000 /\ o.total = 68900)

OrdersOnBothSidesOfThreshold ==
  /\ \E i \in OrderIds : orders[i].subtotal = 50000 /\ orders[i].total = 68900
  /\ \E i \in OrderIds : orders[i].subtotal = 149900 /\ orders[i].discount = 14990


\* the pending gateway orders of user u that were given a gateway order id
\* less than ten minutes ago
PendingSince(u) ==
  {i \in OrderIds :
     /\ orders[i].userId = u
     /\ orders[i].paymentMethod = "RAZORPAY"
     /\ orders[i].paymentStatus = "PENDING"
     /\ orders[i].orderStatus = "PENDING"
     /\ orders[i].razorpayOrderId # 0
     /\ now - orders[i].createdAt < TenMinutes}

\* C9: a createOrder with the gateway method by a user whose previous gateway
\* createOrder, less than 10 minutes ago, returned an order that is still
\* pending is answered 200 with that same order; the call writes nothing: no
\* order row, no coupon usage, and the order stays the only one of the
\* checkout.
RetryReturnsSameOrder ==
  [][\A s \in Slots :
       /\ Receives(s, "createOrder") => UNCHANGED db
       /\ (At(s, "createOrder", "cart") /\ Took(s)) => UNCHANGED db
       /\ (At(s, "createOrder", "dedup") /\ Took(s) /\ PendingSince(reqs[s].user) # {}) =>
            /\ Answers(s, "createOrder", 200)
            /\ PendingSince(reqs[s].user) = {reqs'[s].orderId}
            /\ UNCHANGED db
    ]_vars

RetryAnswered ==
  \E s \in Slots :
    /\ reqs[s].op = "createOrder" /\ reqs[s].pc = "done" /\ reqs[s].status = 200
    /\ reqs[s].orderId \in OrderIds
    /\ now - orders[reqs[s].orderId].createdAt = 1
    /\ Len(orders) = 1
    /\ orders[reqs[s].orderId].discount > 0
    /\ usedCount["WELCOME10"] = 1

\* C10: in every reachable state each user has at most one order with the
\* gateway payment method, paymentStatus PENDING and orderStatus PENDING
\* created within the last 10 minutes.
AtMostOneActivePendingGatewayOrder ==
  \A u \in Users :
    Cardinality({i \in OrderIds :
                   /\ orders[i].userId = u
                   /\ orders[i].paymentMethod = "RAZORPAY"
                   /\ orders[i].paymentStatus = "PENDING"
                   /\ orders[i].orderStatus = "PENDING"
                   /\ now - orders[i].createdAt <= TenMinutes}) <= 1

\* a gateway order whose gateway call failed stays PENDING without a gateway
\* order id, and the next gateway createOrder of the user adds a second one
OrphanAndSecondPendingOrder ==
  /\ Len(orders) = 2
  /\ \A i \in OrderIds :
       /\ orders[i].userId = "u1"
       /\ orders[i].paymentMethod = "RAZORPAY"
       /\ orders[i].paymentStatus = "PENDING"
       /\ orders[i].orderStatus = "PENDING"
       /\ now - orders[i].createdAt <= TenMinutes
  /\ orders[1].razorpayOrderId = 0
  /\ orders[2].razorpayOrderId # 0

\* the orders created with a coupon applied
Discounted == {i \in OrderIds : orders[i].discount > 0}

Quiet == \A s \in Slots : Free(s)

\* C12: whenever no request is in flight, usedCount of the coupon equals the
\* number of orders created with the coupon applied: one increment per such
\* order, none for a createOrder whose order creation failed.
CouponUseMatchesOrders ==
  Quiet => usedCount["WELCOME10"] = Cardinality(Discounted)

\* a createOrder failed in its transaction after the coupon was counted
CouponSpentWithoutOrder ==
  /\ reqs[1].op = "createOrder" /\ reqs[1].pc = "done" /\ reqs[1].status = 500
  /\ orders = <<>>
  /\ usedCount["WELCOME10"] = 1

\* C19: once no createOrder is in flight, every order with the gateway method
\* carries a gateway order id: a failed gateway call leaves no order row
\* behind.
NoOrderWithoutGatewayId ==
  (\A s \in Slots : ~InFlight(s, "createOrder")) =>
    \A i \in OrderIds :
      orders[i].paymentMethod = "RAZORPAY" => orders[i].razorpayOrderId # 0

\* the gateway call of a createOrder failed: the caller got an error and the
\* order row stays, pending and without gateway order id
GatewayFailureLeavesOrder ==
  /\ reqs[1].op = "createOrder" /\ reqs[1].pc = "done" /\ reqs[1].status = 500
  /\ Len(orders) = 1
  /\ orders[1].paymentMethod = "RAZORPAY"
  /\ orders[1].razorpayOrderId = 0
  /\ orders[1].orderStatus = "PENDING" /\ orders[1].paymentStatus = "PENDING"

\* a createOrder request of slot s ends in this step while the cart of its
\* user is missing or has no items
EndsOnEmptyCart(s) ==
  /\ Took(s)
  /\ reqs'[s].op = "createOrder" /\ reqs'[s].pc = "done"
  /\ reqs'[s].user \notin carts \/ cart[reqs'[s].user] = EmptyItems

\* C20 as stated: a createOrder on a missing or empty cart is always answered
\* 400 and changes no state.
EmptyCartIsBadRequest ==
  [][\A s \in Slots :
       EndsOnEmptyCart(s) => (reqs'[s].status = 400 /\ UNCHANGED db)
    ]_vars

\* C20, amended: a createOrder on a missing or empty cart is answered 404 by
\* the address gate or else 400 by the cart gate, the latter whenever it gets
\* past the address gate, and changes no state: no order row, no coupon
\* usage, no cancelled order, no stock counter.
EmptyCartIsRejected ==
  [][\A s \in Slots :
       /\ EndsOnEmptyCart(s) =>
            /\ reqs'[s].status \in {400, 404}
            /\ reqs'[s].status = 404 <=> Free(s)
            /\ UNCHANGED db
       /\ (Receives(s, "createOrder") /\ reqs'[s].pc # "done") =>
            (reqs'[s].pc = "cart" /\ UNCHANGED db)
       /\ (/\ At(s, "createOrder", "cart") /\ Took(s)
           /\ reqs[s].user \notin carts \/ cart[reqs[s].user] = EmptyItems) =>
            (Answers(s, "createOrder", 400) /\ UNCHANGED db)
    ]_vars

\* the cart gate answered 400 to a user whose cart row was left without items
\* by a COD order, and nothing but that order exists
EmptyCartRejected ==
  /\ reqs[1].op = "createOrder" /\ reqs[1].pc = "done" /\ reqs[1].status = 400
  /\ reqs[1].user \in carts
  /\ cart[reqs[1].user] = EmptyItems
  /\ Len(orders) = 1 /\ orders[1].paymentMethod = "COD"
  /\ usedCount["WELCOME10"] = 0

\* the gateway orders of user u that verifyPayment left FAILED, not yet
\* cancelled and created before the instant t
FailedBefore(u, t) ==
  {i \in OrderIds :
     /\ orders[i].userId = u
     /\ orders[i].paymentMethod = "RAZORPAY"
     /\ orders[i].paymentStatus = "FAILED"
     /\ orders[i].orderStatus = "PENDING"
     /\ orders[i].createdAt < t}

\* C18: the stale-order cleanup of a gateway createOrder sets to CANCELLED
\* every order of the user that verifyPayment left FAILED and that is older
\* than 10 minutes.
CleanupCancelsFailedOrders ==
  [][\A s \in Slots :
       (At(s, "createOrder", "stale") /\ Took(s)) =>
         \A i \in FailedBefore(reqs[s].user, reqs[s].tenMinutesAgo) :
           orders'[i].orderStatus = "CANCELLED"
    ]_vars

\* a FAILED order older than 10 minutes is still PENDING after a later gateway
\* createOrder of its user ran the cleanup and created its own order
FailedOrderOutlivesCleanup ==
  /\ Len(orders) = 2
  /\ orders[1].userId = orders[2].userId
  /\ orders[1].paymentStatus = "FAILED" /\ orders[1].orderStatus = "PENDING"
  /\ orders[2].paymentMethod = "RAZORPAY"
  /\ orders[2].createdAt - orders[1].createdAt > TenMinutes
  /\ orders[2].razorpayOrderId # 0

\* C14: after a cancelOrder that succeeded on the only order there is, every
\* product and variant stock counter the order's items refer to is back at
\* the value it had before the order was created.
CancelRestoresStock ==
  (/\ Len(orders) = 1
   /\ reqs[1].op = "cancelOrder" /\ reqs[1].pc = "done" /\ reqs[1].status = 200) =>
    /\ \A p \in Products : QtyOfProduct(orders[1].items, p) > 0 => stock[p] = 1
    /\ \A v \in Variants : QtyOfVariant(orders[1].items, v) > 0 => vstock[v] = 1

\* a gateway order that was never paid, so never deducted, was cancelled and
\* the stock of its product stands above the value before the order
UnpaidCancelInflatesStock ==
  /\ Len(orders) = 1
  /\ reqs[1].op = "cancelOrder" /\ reqs[1].pc = "done" /\ reqs[1].status = 200
  /\ orders[1].paymentMethod = "RAZORPAY"
  /\ orders[1].paymentStatus = "PENDING"
  /\ orders[1].razorpayPaymentId = NoPayment
  /\ orders[1].orderStatus = "CANCELLED"
  /\ \E p \in Products : QtyOfProduct(orders[1].items, p) > 0 /\ stock[p] = 2

CancelSetsStatusWithStock ==
  [][\A s \in Slots :
       /\ (At(s, "cancelOrder", "tx") /\ Took(s)) =>
            LET id == reqs[s].orderId
                o == orders[id]
            IN /\ Answers(s, "cancelOrder", 200)
               /\ o.orderStatus \in {"PENDING", "CONFIRMED"}
               /\ orders' = [orders EXCEPT ![id] =
                    [o EXCEPT !.orderStatus = "CANCELLED",
                              !.paymentStatus =
                                IF o.paymentStatus = "PAID" THEN "REFUNDED"
                                ELSE o.paymentStatus]]
               /\ \A p \in Products : stock'[p] = stock[p] + QtyOfProduct(o.items, p)
               /\ \A v \in Variants : vstock'[v] = vstock[v] + QtyOfVariant(o.items, v)
               /\ UNCHANGED <<carts, cart, usedCount>>
       /\ (Took(s) /\ Answers(s, "cancelOrder", 200)) => At(s, "cancelOrder", "tx")
    ]_vars

PaidOrderCancelled ==
  /\ reqs[1].op = "cancelOrder" /\ reqs[1].pc = "done" /\ reqs[1].status = 200
  /\ Len(orders) = 2
  /\ orders[1].orderStatus = "CANCELLED" /\ orders[1].paymentStatus = "REFUNDED"
  /\ orders[2].orderStatus = "CANCELLED" /\ orders[2].paymentStatus = "PENDING"

\* the changes of orderStatus the order state machine allows
AllowedTransitions ==
  {<<"PENDING", "CONFIRMED">>, <<"CONFIRMED", "PROCESSING">>,
   <<"PROCESSING", "SHIPPED">>, <<"SHIPPED", "DELIVERED">>,
   <<"PENDING", "CANCELLED">>, <<"CONFIRMED", "CANCELLED">>,
   <<"DELIVERED", "RETURNED">>}

\* C17: every change of an order's orderStatus is one of the allowed
\* transitions.
OrderStatusFollowsChain ==
  [][\A i \in OrderIds :
       orders'[i].orderStatus # orders[i].orderStatus =>
         <<orders[i].orderStatus, orders'[i].orderStatus>> \in AllowedTransitions
    ]_vars

\* a COD order is PAID, so it was DELIVERED, and the admin's update has put
\* it back to PENDING
DeliveredOrderReopened ==
  /\ reqs[1].op = "updateOrderStatus" /\ reqs[1].pc = "done" /\ reqs[1].status = 200
  /\ orders[reqs[1].orderId].paymentMethod = "COD"
  /\ orders[reqs[1].orderId].paymentStatus = "PAID"
  /\ orders[reqs[1].orderId].orderStatus = "PENDING"

\* C11: in every reachable state usedCount of every coupon is at most its
\* usageLimit.
UsedCountWithinLimit ==
  \A c \in CouponCodes : usedCount[c] <= Coupon(c).usageLimit

\* two createOrder requests both passed the usage gate on the last free use
\* and both counted it
TwoRedemptionsPastLimit ==
  /\ usedCount["WELCOME10"] = UsageLimit + 1
  /\ \A s \in Slots : reqs[s].op = "createOrder" /\ reqs[s].user = "u1"

\* slot s holds the answer of a validateCoupon that accepted the coupon
Previewed(s) ==
  reqs[s].op = "validateCoupon" /\ reqs[s].pc = "done" /\ reqs[s].status = 200

\* C13: when validateCoupon accepted a code for a subtotal and a createOrder
\* with the same code as submitted, on a cart of that subtotal, settles its
\* discount at the same time and with the coupon unused as at the preview,
\* the discount it applies is the one validateCoupon returned.
PreviewMatchesCheckout ==
  [][(/\ Previewed(1)
      /\ At(2, "createOrder", "coupon") /\ Took(2)
      /\ reqs[2].couponCode = reqs[1].couponCode
      /\ Subtotal(reqs[2].items) = reqs[1].subtotal
      /\ usedCount["WELCOME10"] = 0) =>
       reqs'[2].discount = reqs[1].discount
    ]_vars

\* the preview promised 150 rupees on a subtotal of 1499 and the order of that
\* cart, the only redemption of the coupon, carries 149.90
PreviewAndCheckoutDisagree ==
  /\ Previewed(1)
  /\ reqs[1].couponCode = "WELCOME10"
  /\ reqs[1].subtotal = 149900 /\ reqs[1].discount = 15000
  /\ Len(orders) = 1
  /\ orders[1].subtotal = 149900 /\ orders[1].discount = 14990
  /\ usedCount["WELCOME10"] = 1

\* C23: the shipping address an existing order is read with never changes.
OrderAddressIsFrozen ==
  [][\A i \in OrderIds : ShippingAddress(orders[i])' = ShippingAddress(orders[i])
    ]_vars

\* the owner edited the address of an order placed before, and the order
\* now shows the edited address
OrderShowsEditedAddress ==
  /\ reqs[1].op = "updateAddress" /\ reqs[1].pc = "done" /\ reqs[1].status = 200
  /\ Len(orders) = 1
  /\ ShippingAddress(orders[1]) = "7 Park Street"

\* C21: validateCoupon answers at once: 404 when the coupon does not exist,
\* otherwise 400 when it is inactive, used up, not yet valid, expired or the
\* subtotal is below minPurchase, and 200 only when every gate passes.
PreviewGatesInOrder ==
  [][\A s \in Slots :
       (Receives(s, "validateCoupon") /\ reqs'[s].couponCode # NoCoupon) =>
         LET code == ToUpperCase(reqs'[s].couponCode)
             c == Coupon(code)
         IN /\ reqs'[s].pc = "done"
            /\ reqs'[s].status =
                 IF code \notin CouponCodes THEN 404
                 ELSE IF ~c.isActive THEN 400
                 ELSE IF ~(usedCount[code] < c.usageLimit) THEN 400
                 ELSE IF now < c.validFrom THEN 400
                 ELSE IF now > c.validUntil THEN 400
                 ELSE IF ~(reqs'[s].subtotal >= c.minPurchase) THEN 400
                 ELSE 200
    ]_vars

\* a preview sent without subtotal was accepted, with discount 0, although
\* no subtotal reaches minPurchase
PreviewWithoutSubtotalAccepted ==
  /\ Previewed(1)
  /\ reqs[1].subtotal = 0
  /\ reqs[1].subtotal < Coupon(ToUpperCase(reqs[1].couponCode)).minPurchase
  /\ reqs[1].discount = 0

\* C22: validateCoupon answers in one step that changes no persistent state,
\* whatever its outcome; usedCount of a coupon changes only by the increment
\* of a createOrder that applied the coupon.
PreviewChangesNothing ==
  [][/\ \A s \in Slots :
          Receives(s, "validateCoupon") => (reqs'[s].pc = "done" /\ UNCHANGED <<now, db>>)
     /\ \A c \in CouponCodes :
          usedCount'[c] # usedCount[c] =>
            /\ usedCount'[c] = usedCount[c] + 1
            /\ \E s \in Slots :
                 /\ At(s, "createOrder", "couponUse") /\ Took(s)
                 /\ reqs[s].couponCode = c /\ reqs[s].discount > 0
    ]_vars

\* a preview was accepted with a discount after an order had redeemed the
\* coupon once, and the count still stands at that one redemption
PreviewKeepsUsedCount ==
  /\ Previewed(1)
  /\ reqs[1].discount = 15000
  /\ Len(orders) = 1 /\ orders[1].discount > 0
  /\ usedCount["WELCOME10"] = 1

\* slot s takes a step of a verifyPayment request
VerifyStep(s) == Took(s) /\ reqs'[s].op = "verifyPayment"

\* C24: while a gateway order is the only order, the stock of every product
\* and variant stands at most one deduction of the order's items below its
\* initial value, however many verifyPayment calls were made.
PaymentDeductsOnce ==
  (Len(orders) = 1 /\ orders[1].paymentMethod = "RAZORPAY") =>
    /\ \A p \in Products : stock[p] >= 1 - QtyOfProduct(orders[1].items, p)
    /\ \A v \in Variants : vstock[v] >= 1 - QtyOfVariant(orders[1].items, v)

\* the same genuine verifyPayment was accepted again on the PAID order and
\* deducted its single item a second time
RepeatedPaymentDeductsTwice ==
  /\ reqs[1].op = "verifyPayment" /\ reqs[1].pc = "done" /\ reqs[1].status = 200
  /\ Len(orders) = 1
  /\ orders[1].paymentStatus = "PAID"
  /\ QtyOfProduct(orders[1].items, "p1") = 1
  /\ stock["p1"] = 0 - 1

\* C25: no step of a verifyPayment request changes the paymentStatus of an
\* order that is PAID.
PaidStaysPaid ==
  [][\A i \in OrderIds :
       (orders[i].paymentStatus = "PAID" /\ \E s \in Slots : VerifyStep(s)) =>
         orders'[i].paymentStatus = "PAID"
    ]_vars

\* an order that carries its verified payment id was turned to FAILED by a
\* verifyPayment with a forged signature
PaidOrderTurnedFailed ==
  /\ reqs[1].op = "verifyPayment" /\ reqs[1].pc = "done" /\ reqs[1].status = 400
  /\ reqs[1].razorpay_signature #
       Hmac(reqs[1].razorpay_order_id, reqs[1].razorpay_payment_id)
  /\ \E i \in OrderIds :
       /\ orders[i].razorpayOrderId = reqs[1].razorpay_order_id
       /\ orders[i].razorpayPaymentId # NoPayment
       /\ orders[i].orderStatus = "CONFIRMED"
       /\ orders[i].paymentStatus = "FAILED"

\* C26: no step of a verifyPayment request changes an order whose
\* orderStatus is CANCELLED, and the transaction of a verifyPayment on such
\* an order deducts no stock.
CancelledIsClosedToPayment ==
  [][\A s \in Slots :
       VerifyStep(s) =>
         /\ \A i \in OrderIds :
              orders[i].orderStatus = "CANCELLED" => orders'[i] = orders[i]
         /\ (/\ At(s, "verifyPayment", "tx")
             /\ orders[reqs[s].orderId].orderStatus = "CANCELLED") =>
              UNCHANGED <<stock, vstock>>
    ]_vars

\* the only order was cancelled unpaid and then set to PAID and CONFIRMED by
\* a verifyPayment: its stock counter is back at the initial value, one
\* restoration and one deduction
CancelledOrderRevived ==
  /\ reqs[1].op = "verifyPayment" /\ reqs[1].pc = "done" /\ reqs[1].status = 200
  /\ Len(orders) = 1
  /\ orders[1].paymentStatus = "PAID" /\ orders[1].orderStatus = "CONFIRMED"
  /\ QtyOfProduct(orders[1].items, "p1") = 1
  /\ stock["p1"] = 1

\* product stock less the stock of the product's variants
StockLessVariants(st, vst, p) ==
  st[p] - SumOver({v \in Variants : Variant(v).productId = p}, vst)

\* the quantity of product p in lines without variant
QtyWithoutVariant(items, p) ==
  SumOver({k \in ItemKeys : k.productId = p /\ k.variantId = NoVariant}, items)

\* C30: the transaction of a createOrder, a verifyPayment or a cancelOrder
\* moves every variant's stock and its product's stock by the quantity of the
\* line at once: product stock less variant stock changes by the quantity of
\* the lines without variant only, so not at all for items that all carry a
\* variant; no other step changes a stock counter.
VariantAndProductMoveTogether ==
  [][\A p \in Products :
       LET before == StockLessVariants(stock, vstock, p)
           after == StockLessVariants(stock', vstock', p)
           paid == {s \in Slots : Took(s) /\ reqs[s].pc = "tx"
                                   /\ reqs[s].op \in {"createOrder", "verifyPayment"}}
           back == {s \in Slots : Took(s) /\ At(s, "cancelOrder", "tx")}
           Items(s) == IF reqs[s].op = "createOrder" THEN reqs[s].items
                       ELSE orders[reqs[s].orderId].items
       IN /\ (stock' # stock \/ vstock' # vstock) => paid \cup back # {}
          /\ \A s \in paid :
               /\ after \in {before, before - QtyWithoutVariant(Items(s), p)}
               /\ \A v \in Variants :
                    Variant(v).productId = p =>
                      stock'[p] - stock[p] = vstock'[v] - vstock[v]
                                             - (before - after)
          /\ \A s \in back :
               /\ after = before + QtyWithoutVariant(Items(s), p)
               /\ \A v \in Variants :
                    Variant(v).productId = p =>
                      stock'[p] - stock[p] = vstock'[v] - vstock[v]
                                             + (after - before)
    ]_vars

\* an order of the variant line alone was paid and then cancelled: variant
\* and product stock went down and came back together
VariantOrderPaidAndCancelled ==
  /\ reqs[1].op = "cancelOrder" /\ reqs[1].pc = "done" /\ reqs[1].status = 200
  /\ Len(orders) = 1
  /\ QtyOfVariant(orders[1].items, "v1") = 1
  /\ QtyWithoutVariant(orders[1].items, "p1") = 0
  /\ orders[1].paymentStatus = "REFUNDED"
  /\ stock["p1"] = 1 /\ vstock["v1"] = 1

\* C27: once no request is in flight, an order that is CANCELLED and carries
\* a verified payment has paymentStatus REFUNDED, and while it is the only
\* order every stock counter is back at its initial value.
CancelAfterPaymentRefunds ==
  Quiet =>
    \A i \in OrderIds :
      (orders[i].orderStatus = "CANCELLED"
       /\ orders[i].razorpayPaymentId # NoPayment) =>
        /\ orders[i].paymentStatus = "REFUNDED"
        /\ Len(orders) = 1 =>
             /\ \A p \in Products : stock[p] = 1
             /\ \A v \in Variants : vstock[v] = 1

\* the cancellation read the order as PENDING, the payment was verified, and
\* the cancellation then wrote PENDING back over PAID
CancelOverwritesVerifiedPayment ==
  /\ Quiet
  /\ reqs[1].op = "cancelOrder" /\ reqs[1].status = 200
  /\ reqs[2].op = "verifyPayment" /\ reqs[2].status = 200
  /\ Len(orders) = 1
  /\ orders[1].orderStatus = "CANCELLED"
  /\ orders[1].paymentStatus = "PENDING"
  /\ orders[1].razorpayPaymentId # NoPayment

\* C28: no stock counter rises above its initial value: the cancellations of
\* an order give back what the order took, once.
CancelRestoresOnce ==
  /\ \A p \in Products : stock[p] <= 1
  /\ \A v \in Variants : vstock[v] <= 1

\* two cancelOrder calls on the same COD order both succeeded and the stock
\* of its product stands one item above the initial value
TwoCancelsRestoreTwice ==
  /\ \A s \in Slots :
       reqs[s].op = "cancelOrder" /\ reqs[s].pc = "done" /\ reqs[s].status = 200
  /\ reqs[1].id = reqs[2].id
  /\ Len(orders) = 1
  /\ orders[1].paymentMethod = "COD" /\ orders[1].orderStatus = "CANCELLED"
  /\ QtyOfProduct(orders[1].items, "p1") = 1
  /\ stock["p1"] = 2

\* C29: the transaction of a COD createOrder that commits creates its order
\* from the items the cart holds at that moment: a cart is turned into an
\* order, and its stock deducted, once.
CodOrderConsumesCart ==
  [][\A s \in Slots :
       (/\ At(s, "createOrder", "tx") /\ reqs[s].paymentMethod = "COD"
        /\ Answers(s, "createOrder", 201)) =>
         /\ cart[reqs[s].user] # EmptyItems
         /\ cart[reqs[s].user] = reqs[s].items
    ]_vars

\* two COD createOrder calls of one user were both answered 201 with an order
\* of the same single cart line, and the product stock was deducted twice
TwoOrdersFromOneCart ==
  /\ \A s \in Slots :
       reqs[s].op = "createOrder" /\ reqs[s].pc = "done" /\ reqs[s].status = 201
  /\ Len(orders) = 2
  /\ orders[1].userId = orders[2].userId
  /\ orders[1].items = orders[2].items
  /\ QtyOfProduct(orders[1].items, "p1") = 1
  /\ stock["p1"] = 0 - 1

====
